---- MODULE Spec2Model ----
(***************************************************************************)
(* SpaceTravel: the scene camera (src/src/camera.rs) and the part of the   *)
(* frame loop that drives it (src/src/main.rs: handle_input, the overhead  *)
(* eye override and the warp keys).                                        *)
(*                                                                         *)
(* f32 values are fixed-point integers: a length l is the integer l * LU,  *)
(* an angle a (radians) is the integer a * AU.  Every arithmetic result is *)
(* rounded to the nearest representable value, as f32 arithmetic rounds.   *)
(* NaN is a value of its own and propagates through the arithmetic.        *)
(***************************************************************************)
EXTENDS Integers, Sequences, FiniteSets, TLC

VARIABLES
    camera,     \* the Camera struct (camera.rs:4-14)
    keys,       \* the keys the window reports down during the current frame
    pc,         \* position of main's loop body within the current frame
    frame,      \* number of frames started
    start,      \* history: the camera when the current frame started
    entry,      \* history: the pose handle_input saw right before the last activation
    calls,      \* number of Camera calls made by a client of the Camera API (SpecCam)
    last,       \* the Camera operation that client called last
    prezoom,    \* history: the camera right before the client's last zoom call
    zoomed,     \* history: the delta of the client's last zoom call
    view,       \* uniforms.view_matrix: its side, up and forward rows and its eye
    build,      \* whether the build checks integer overflow, once that has shown
    body_trail, \* the Trail of a celestial body (main.rs:45-49)
    trail_op,   \* the Trail method called last on it, its dt and the number of calls made
    normal_of,  \* vertex_shader's normal transform: model matrix, normal and result
    framebuffer,            \* main's Framebuffer: buffer, zbuffer, colors
    stage,                  \* position of the frame's drawing
    draws,                  \* render calls finished in the frame
    planet_type,            \* render's planet_type argument
    vertex_array,           \* render's vertex_array argument
    transformed_vertices,   \* render's transformed_vertices
    triangles,              \* render's triangles
    fragments,              \* render's fragments not yet processed
    shaded,                 \* render's shaded_color of the fragment being processed
    tested,                 \* history: the last depth test made for a fragment
    points,                 \* history: the fragments and particles handed to point
    trail,                  \* history: the last render_trail call
    particles               \* render_trail calls made in the frame

\* the histories of the zoom calls
zoomVars == <<prezoom, zoomed>>

\* the view matrix of the uniforms and the build
sceneVars == <<view, build>>

\* a body's trail and the calls made on it
trailVars == <<body_trail, trail_op, normal_of>>

\* the camera, the frame loop and the client of the Camera operations
camVars ==
    <<camera, keys, pc, frame, start, entry, calls, last, zoomVars, sceneVars, trailVars>>

\* the drawing of a frame
drawVars ==
    <<framebuffer, stage, draws, planet_type, vertex_array, transformed_vertices,
      triangles, fragments, shaded, tested, points, trail, particles>>

vars == <<camVars, drawVars>>

----------------------------------------------------------------------------
(* Fixed-point f32 *)

LU == 10^3          \* integer units per 1.0 of length
AU == 10^4          \* integer units per radian
NaN == -(2^30)      \* f32::NAN

PI == 31416         \* std::f32::consts::PI, in AU

Abs(a) == IF a < 0 THEN -a ELSE a

Max2(a, b) == IF a >= b THEN a ELSE b

\* a / b rounded to nearest, b > 0
RDiv(a, b) == IF a >= 0 THEN (a + b \div 2) \div b ELSE -((b \div 2 - a) \div b)

IsNaN(a) == a = NaN

FAdd(a, b) == IF IsNaN(a) \/ IsNaN(b) THEN NaN ELSE a + b

FSub(a, b) == IF IsNaN(a) \/ IsNaN(b) THEN NaN ELSE a - b

\* the product of a and b, b a fixed-point number with `scale` units per 1.0
FMul(a, b, scale) == IF IsNaN(a) \/ IsNaN(b) THEN NaN ELSE RDiv(a * b, scale)

\* f32::clamp: NaN stays NaN
Clamp(x, lo, hi) == IF IsNaN(x) THEN NaN ELSE IF x < lo THEN lo ELSE IF x > hi THEN hi ELSE x

\* the f32 % operator: the remainder has the sign of the dividend
FRem(a, m) == IF IsNaN(a) THEN NaN ELSE IF a >= 0 THEN a % m ELSE -((-a) % m)

RECURSIVE SqrtIter(_, _, _)
SqrtIter(n, lo, hi) ==
    IF lo >= hi THEN lo
    ELSE LET mid == (lo + hi + 1) \div 2
         IN IF mid * mid <= n THEN SqrtIter(n, mid, hi) ELSE SqrtIter(n, lo, mid - 1)

\* r, the floor of the square root of n, rounded to the nearest integer to that root
SqrtRound(n, r) == IF n - r * r > r THEN r + 1 ELSE r

\* f32::sqrt of an integer n >= 0, rounded to nearest
Sqrt(n) == SqrtRound(n, SqrtIter(n, 0, 46340))

\* sine on [0, PI/2], argument in AU, result in AU (Taylor series to x^9)
SinQ(t) ==
    LET x2 == (t * t) \div AU
        p4 == AU - x2 \div 72
        p3 == AU - ((x2 * p4) \div AU) \div 42
        p2 == AU - ((x2 * p3) \div AU) \div 20
        p1 == AU - ((x2 * p2) \div AU) \div 6
    IN (t * p1) \div AU

\* sine of an angle in AU, result in AU
SinAU(a) ==
    LET r == a % (2 * PI)
    IN IF r <= PI \div 2 THEN SinQ(r)
       ELSE IF r <= PI THEN SinQ(PI - r)
       ELSE IF r <= PI + PI \div 2 THEN -SinQ(r - PI)
       ELSE -SinQ(2 * PI - r)

CosAU(a) == SinAU(a + PI \div 2)

\* f32::sin, argument in AU, result in LU
Sin(a) == IF IsNaN(a) THEN NaN ELSE RDiv(SinAU(a), AU \div LU)

\* f32::cos
Cos(a) == IF IsNaN(a) THEN NaN ELSE RDiv(CosAU(a), AU \div LU)

\* the angle of [0, PI/2] at which y*cos - x*sin changes sign (x, y > 0), by bisection
RECURSIVE AtanIter(_, _, _, _)
AtanIter(y, x, lo, hi) ==
    IF hi - lo <= 1
    THEN IF Abs(y * CosAU(lo) - x * SinAU(lo)) <= Abs(y * CosAU(hi) - x * SinAU(hi))
         THEN lo ELSE hi
    ELSE LET mid == (lo + hi) \div 2
         IN IF y * CosAU(mid) - x * SinAU(mid) >= 0
            THEN AtanIter(y, x, mid, hi)
            ELSE AtanIter(y, x, lo, mid)

\* f32::atan2(y, x), result in AU in [-PI, PI]; atan2(0, 0) = 0
Atan2(y, x) ==
    IF IsNaN(y) \/ IsNaN(x) THEN NaN
    ELSE IF y = 0 THEN (IF x >= 0 THEN 0 ELSE PI)
    ELSE IF x = 0 THEN (IF y > 0 THEN PI \div 2 ELSE -(PI \div 2))
    ELSE LET k  == Max2(Abs(x), Abs(y)) \div (10^5) + 1
             ay == RDiv(Abs(y), k)
             ax == RDiv(Abs(x), k)
             a  == AtanIter(ay, ax, 0, PI \div 2)
         IN IF x >= 0 THEN (IF y >= 0 THEN a ELSE -a)
            ELSE (IF y >= 0 THEN PI - a ELSE a - PI)

----------------------------------------------------------------------------
(* nalgebra_glm::Vec3 *)

Vec3(x, y, z) == <<x, y, z>>

NaNVec == <<NaN, NaN, NaN>>

HasNaN(v) == IsNaN(v[1]) \/ IsNaN(v[2]) \/ IsNaN(v[3])

VAdd(u, v) == <<FAdd(u[1], v[1]), FAdd(u[2], v[2]), FAdd(u[3], v[3])>>

VSub(u, v) == <<FSub(u[1], v[1]), FSub(u[2], v[2]), FSub(u[3], v[3])>>

\* v * s, s with `scale` units per 1.0
VScale(v, s, scale) == <<FMul(v[1], s, scale), FMul(v[2], s, scale), FMul(v[3], s, scale)>>

\* the divisor that brings the components of v into the range whose squares fit
Shrink(v) == Max2(Max2(Abs(v[1]), Abs(v[2])), Abs(v[3])) \div 20000 + 1

\* Vec3::magnitude
Magnitude(v) ==
    IF HasNaN(v) THEN NaN
    ELSE LET k == Shrink(v)
             x == RDiv(v[1], k)
             y == RDiv(v[2], k)
             z == RDiv(v[3], k)
         IN Sqrt(x * x + y * y + z * z) * k

\* the vector (x, y, z) of length m, scaled to length 1.0
Unit(x, y, z, m) == <<RDiv(x * LU, m), RDiv(y * LU, m), RDiv(z * LU, m)>>

\* the largest absolute value of v's components
MaxAbs(v) == Max2(Max2(Abs(v[1]), Abs(v[2])), Abs(v[3]))

\* the factor that brings the components of a short v to where their squares are exact
Grow(v) == IF MaxAbs(v) < 20000 THEN 20000 \div MaxAbs(v) ELSE 1

\* v brought into the range in which its length is computed
Scaled(v) ==
    <<RDiv(v[1] * Grow(v), Shrink(v)), RDiv(v[2] * Grow(v), Shrink(v)),
      RDiv(v[3] * Grow(v), Shrink(v))>>

\* the length of an integer vector
Length(w) == Sqrt(w[1] * w[1] + w[2] * w[2] + w[3] * w[3])

UnitOf(w) == Unit(w[1], w[2], w[3], Length(w))

\* Vec3::normalize: the zero vector normalizes to NaN (0.0 / 0.0)
Normalize(v) ==
    IF HasNaN(v) THEN NaNVec
    ELSE IF MaxAbs(v) = 0 THEN NaNVec
    ELSE UnitOf(Scaled(v))

\* Vec3::cross of two vectors of length about 1.0
Cross(u, v) ==
    <<FSub(FMul(u[2], v[3], LU), FMul(u[3], v[2], LU)),
      FSub(FMul(u[3], v[1], LU), FMul(u[1], v[3], LU)),
      FSub(FMul(u[1], v[2], LU), FMul(u[2], v[1], LU))>>

----------------------------------------------------------------------------
(* camera.rs: struct Camera and its methods, as functions from the camera *)
(* before the call to the camera after it                                   *)

None == <<>>        \* Option::None of previous_state

Some(eye, center, pitch, yaw, roll) == <<eye, center, pitch, yaw, roll>>

\* the pitch clamp bound PI / 2.0 - 0.1 of orbit, rotate_pitch and move_and_rotate
PitchLimit == PI \div 2 - AU \div 10

\* the clamp bound PI / 4.0 of update_rotation and of move_and_rotate's roll
RollLimit == PI \div 4

\* Camera::new
New(eye, center, up) ==
    [eye |-> eye, center |-> center, up |-> up, has_changed |-> TRUE,
     bird_eye_active |-> FALSE, previous_state |-> None,
     yaw |-> 0, roll |-> 0, pitch |-> 0]

\* Camera::get_forward
get_forward(c) ==
    Normalize(<<FMul(Cos(c.yaw), Cos(c.pitch), LU),
                Sin(c.pitch),
                FMul(Sin(c.yaw), Cos(c.pitch), LU)>>)

\* Camera::get_up
get_up(c) == c.up

\* Camera::get_right
get_right(c) == Normalize(Cross(get_forward(c), c.up))

\* the (forward, right, up) triple of get_local_axes, from forward and right
AxesFrom(forward, right) == <<forward, right, Normalize(Cross(right, forward))>>

AxesOf(forward, up) == AxesFrom(forward, Normalize(Cross(forward, up)))

\* Camera::get_local_axes
get_local_axes(c) == AxesOf(get_forward(c), c.up)

\* orbit: the eye on the sphere of the given radius around center
OrbitEye(center, radius, new_yaw, new_pitch) ==
    VAdd(center,
         <<FMul(FMul(radius, Cos(new_yaw), LU), Cos(new_pitch), LU),
           FMul(IF IsNaN(radius) THEN NaN ELSE -radius, Sin(new_pitch), LU),
           FMul(FMul(radius, Sin(new_yaw), LU), Cos(new_pitch), LU)>>)

\* orbit: current_yaw and current_pitch of the radius vector
CurrentYaw(radius_vector) == Atan2(radius_vector[3], radius_vector[1])

CurrentPitch(radius_vector) ==
    Atan2(IF IsNaN(radius_vector[2]) THEN NaN ELSE -radius_vector[2],
          Magnitude(<<radius_vector[1], 0, radius_vector[3]>>))

\* orbit: the new eye, from the radius vector
OrbitFrom(center, radius_vector, delta_yaw, delta_pitch) ==
    OrbitEye(center,
             Magnitude(radius_vector),
             FRem(FAdd(CurrentYaw(radius_vector), delta_yaw), 2 * PI),
             Clamp(FAdd(CurrentPitch(radius_vector), delta_pitch), -PitchLimit, PitchLimit))

\* the eye of an orbit whose horizontal components are left unscaled by cos(new_pitch)
OrbitEye_Flat(center, radius, new_yaw, new_pitch) ==
    VAdd(center,
         <<FMul(radius, Cos(new_yaw), LU),
           FMul(IF IsNaN(radius) THEN NaN ELSE -radius, Sin(new_pitch), LU),
           FMul(radius, Sin(new_yaw), LU)>>)

\* orbit with that eye
orbit_Flat(c, delta_yaw, delta_pitch) ==
    [c EXCEPT !.eye = OrbitEye_Flat(c.center,
                                    Magnitude(VSub(c.eye, c.center)),
                                    FRem(FAdd(CurrentYaw(VSub(c.eye, c.center)), delta_yaw), 2 * PI),
                                    Clamp(FAdd(CurrentPitch(VSub(c.eye, c.center)), delta_pitch),
                                          -PitchLimit, PitchLimit)),
              !.has_changed = TRUE]

\* orbit that also stores the angles it computed
orbit_StoresAngles(c, delta_yaw, delta_pitch) ==
    [c EXCEPT !.eye = OrbitFrom(c.center, VSub(c.eye, c.center), delta_yaw, delta_pitch),
              !.yaw = FRem(FAdd(CurrentYaw(VSub(c.eye, c.center)), delta_yaw), 2 * PI),
              !.pitch = Clamp(FAdd(CurrentPitch(VSub(c.eye, c.center)), delta_pitch),
                              -PitchLimit, PitchLimit),
              !.has_changed = TRUE]

\* Camera::orbit
orbit(c, delta_yaw, delta_pitch) ==
    [c EXCEPT !.eye = OrbitFrom(c.center, VSub(c.eye, c.center), delta_yaw, delta_pitch),
              !.has_changed = TRUE]

\* zoom with the direction left unnormalized
zoom_Unnormalized(c, delta) ==
    LET direction == VSub(c.center, c.eye)
    IN [c EXCEPT !.eye = VAdd(c.eye, VScale(direction, delta, LU)), !.has_changed = TRUE]

\* move_center moving the center alone
move_center_CenterOnly(c, movement) ==
    [c EXCEPT !.center = VAdd(c.center, movement)]

\* Camera::zoom
zoom(c, delta) ==
    LET direction == Normalize(VSub(c.center, c.eye))
    IN [c EXCEPT !.eye = VAdd(c.eye, VScale(direction, delta, LU)), !.has_changed = TRUE]

\* Camera::move_center
move_center(c, movement) ==
    [c EXCEPT !.center = VAdd(c.center, movement), !.eye = VAdd(c.eye, movement)]

\* Camera::check_if_changed: the camera after the call (the result is has_changed before it)
check_if_changed(c) == [c EXCEPT !.has_changed = FALSE]

\* update_center keeping the direction from eye to center the camera had
update_center_Stale(c) == c

\* Camera::update_center
update_center(c) == [c EXCEPT !.center = VAdd(c.eye, get_forward(c))]

\* Camera::move_forward
move_forward(c, amount) ==
    update_center([c EXCEPT !.eye = VAdd(c.eye, VScale(get_forward(c), amount, LU))])

\* Camera::move_up
move_up(c, amount) ==
    update_center([c EXCEPT !.eye = VAdd(c.eye, VScale(get_up(c), amount, LU))])

\* Camera::rotate_yaw
rotate_yaw(c, angle) == update_center([c EXCEPT !.yaw = FAdd(c.yaw, angle)])

\* rotate_pitch without the clamp
rotate_pitch_Unclamped(c, angle) == update_center([c EXCEPT !.pitch = FAdd(c.pitch, angle)])

\* Camera::rotate_pitch
rotate_pitch(c, angle) ==
    update_center([c EXCEPT !.pitch = Clamp(FAdd(c.pitch, angle), -PitchLimit, PitchLimit)])

\* Camera::set_bird_eye_view
set_bird_eye_view(c) ==
    [c EXCEPT !.eye = Vec3(0, 1200 * LU, 800 * LU),
              !.center = Vec3(0, 0, 0),
              !.up = Vec3(0, LU, 0),
              !.bird_eye_active = TRUE,
              !.has_changed = TRUE]

\* Camera::set_normal_view
set_normal_view(c) ==
    [c EXCEPT !.eye = Vec3(0, 0, 10 * LU), !.center = Vec3(0, 0, 0), !.up = Vec3(0, LU, 0)]

\* Camera::update_rotation
update_rotation(c, delta_roll, delta_pitch, delta_yaw) ==
    [c EXCEPT !.roll  = Clamp(FAdd(c.roll, delta_roll), -RollLimit, RollLimit),
              !.pitch = Clamp(FAdd(c.pitch, delta_pitch), -RollLimit, RollLimit),
              !.yaw   = FAdd(c.yaw, delta_yaw)]

\* Camera::reset_rotation
reset_rotation(c) == [c EXCEPT !.roll = 0, !.pitch = 0, !.yaw = 0]

\* move_camera: the eye moved along forward, banked along right and lifted by the pitch
MovedEye(c, forward, right, delta_time) ==
    VAdd(VAdd(VAdd(c.eye, VScale(forward, delta_time, LU)),
              VScale(VScale(right, c.roll, AU), delta_time, LU)),
         <<0, FMul(FMul(c.pitch, LU, AU), delta_time, LU), 0>>)

\* move_camera: the camera after the movement and the first yaw and pitch update
Moved(c, delta_time, delta_pitch, delta_yaw) ==
    [c EXCEPT !.eye = MovedEye(c, get_forward(c), get_right(c), delta_time),
              !.yaw = FAdd(c.yaw, FMul(delta_yaw, delta_time, LU)),
              !.pitch = FAdd(c.pitch, FMul(delta_pitch, delta_time, LU))]

\* Camera::move_camera; delta_time in LU, the angle deltas in AU
move_camera(c, delta_time, delta_roll, delta_pitch, delta_yaw) ==
    IF c.bird_eye_active THEN c
    ELSE IF delta_roll = 0 /\ delta_pitch = 0 /\ delta_yaw = 0
         THEN reset_rotation(Moved(c, delta_time, delta_pitch, delta_yaw))
         ELSE update_rotation(Moved(c, delta_time, delta_pitch, delta_yaw),
                              delta_roll, delta_pitch, delta_yaw)

\* move_and_rotate: "Actualiza rotaciones"; inputs = (forward, right, up, roll, pitch, yaw)
Rotated(c, delta_time, inputs) ==
    [c EXCEPT !.yaw   = FAdd(c.yaw, FMul(inputs[6], delta_time, LU)),
              !.pitch = Clamp(FAdd(c.pitch, FMul(inputs[5], delta_time, LU)),
                              -PitchLimit, PitchLimit),
              !.roll  = Clamp(FAdd(c.roll, FMul(inputs[4], delta_time, LU)),
                              -RollLimit, RollLimit)]

\* move_and_rotate: the eye moved along the local axes, and further along forward by the roll
MovedAlong(c, axes, delta_time, inputs) ==
    VAdd(VAdd(VAdd(VAdd(c.eye,
                        VScale(VScale(axes[1], inputs[1], LU), delta_time, LU)),
                   VScale(VScale(axes[2], inputs[2], LU), delta_time, LU)),
              VScale(VScale(axes[3], inputs[3], LU), delta_time, LU)),
         VScale(axes[1], FMul(c.roll, delta_time, AU), LU))

\* move_and_rotate, after the rotation update
MoveRotated(c, delta_time, inputs) ==
    update_center([c EXCEPT !.eye = MovedAlong(c, get_local_axes(c), delta_time, inputs)])

\* Camera::move_and_rotate
move_and_rotate(c, delta_time, inputs) == MoveRotated(Rotated(c, delta_time, inputs), delta_time, inputs)

----------------------------------------------------------------------------
(* main.rs: the frame loop's use of the camera *)

MaxFrames == 3      \* frames the loop is followed for

\* the minifb keys main.rs polls
Keys == {"B", "Up", "Down", "W", "A", "S", "D", "Q", "E",
         "Key1", "Key2", "Key3", "Key4", "Key5", "Key6", "Key7", "Key8"}

\* the key states a frame is run with: at most one navigation key, with or without B,
\* the pairs of keys whose effects oppose each other, and a turn while moving
KeyCombos ==
    {{}, {"B"}} \cup {{k} : k \in Keys} \cup {{"B", k} : k \in Keys}
        \cup {{"A", "D"}, {"Up", "Down"}, {"Key1", "Key2"}, {"Up", "W"}}

\* WARP_POINTS
WARP_POINTS ==
    <<Vec3(0, 0, 0), Vec3(-4 * LU, 0, 0), Vec3(6 * LU, 0, 0), Vec3(12 * LU, 0, 0),
      Vec3(18 * LU, 0, 0), Vec3(24 * LU, 0, 0), Vec3(30 * LU, 0, 0), Vec3(36 * LU, 0, 0)>>

\* the key of main's k-th warp test
WarpKey(k) == <<"Key1", "Key2", "Key3", "Key4", "Key5", "Key6", "Key7", "Key8">>[k]

\* instant_warp that also forgets the saved pose
instant_warp_DropSnapshot(c, target_position) ==
    [c EXCEPT !.eye = VAdd(target_position, Vec3(0, 0, 10 * LU)),
              !.center = target_position,
              !.previous_state = None]

\* instant_warp
instant_warp(c, target_position) ==
    [c EXCEPT !.eye = VAdd(target_position, Vec3(0, 0, 10 * LU)), !.center = target_position]

\* handle_input's locals
movement_speed == LU \div 2
rotation_speed == RDiv(PI, 128)
bank_angle == RDiv(PI, 16)

\* the pose a snapshot holds
Pose(c) == Some(c.eye, c.center, c.pitch, c.yaw, c.roll)

\* the restore of lines 675-682
Restore(c) ==
    [c EXCEPT !.eye = c.previous_state[1],
              !.center = c.previous_state[2],
              !.pitch = c.previous_state[3],
              !.yaw = c.previous_state[4],
              !.roll = c.previous_state[5],
              !.previous_state = None,
              !.bird_eye_active = FALSE]

\* the B branch leaving the snapshot in place on exit
BirdEyeKeys_KeepSnapshot(c, ks) ==
    IF "B" \in ks
    THEN IF ~c.bird_eye_active
         THEN [set_bird_eye_view([c EXCEPT !.previous_state = Pose(c)])
                  EXCEPT !.bird_eye_active = TRUE]
         ELSE c
    ELSE IF c.bird_eye_active /\ c.previous_state # None
         THEN [Restore(c) EXCEPT !.previous_state = c.previous_state]
         ELSE c

\* the B branch with B as a toggle: B down in the overhead view leaves it
BirdEyeKeys_Toggle(c, ks) ==
    IF "B" \in ks
    THEN IF ~c.bird_eye_active
         THEN [set_bird_eye_view([c EXCEPT !.previous_state = Pose(c)])
                  EXCEPT !.bird_eye_active = TRUE]
         ELSE IF c.previous_state # None THEN Restore(c) ELSE c
    ELSE c

\* the B branch without the "not already active" test
BirdEyeKeys_Resnapshot(c, ks) ==
    IF "B" \in ks
    THEN [set_bird_eye_view([c EXCEPT !.previous_state = Pose(c)])
             EXCEPT !.bird_eye_active = TRUE]
    ELSE IF c.bird_eye_active /\ c.previous_state # None THEN Restore(c) ELSE c

\* the B branch lowering the flag on release whether or not a snapshot exists
BirdEyeKeys_ForceExit(c, ks) ==
    IF "B" \in ks
    THEN IF ~c.bird_eye_active
         THEN [set_bird_eye_view([c EXCEPT !.previous_state = Pose(c)])
                  EXCEPT !.bird_eye_active = TRUE]
         ELSE c
    ELSE IF c.bird_eye_active
         THEN IF c.previous_state # None THEN Restore(c)
              ELSE [c EXCEPT !.bird_eye_active = FALSE]
         ELSE c

\* the B branch restoring the pose on release and leaving the flag up
BirdEyeKeys_KeepFlag(c, ks) ==
    IF "B" \in ks
    THEN IF ~c.bird_eye_active
         THEN [set_bird_eye_view([c EXCEPT !.previous_state = Pose(c)])
                  EXCEPT !.bird_eye_active = TRUE]
         ELSE c
    ELSE IF c.bird_eye_active /\ c.previous_state # None
         THEN [Restore(c) EXCEPT !.bird_eye_active = TRUE]
         ELSE c

\* handle_input, first part: the B key (entering and leaving the overhead view)
BirdEyeKeys(c, ks) ==
    IF "B" \in ks
    THEN IF ~c.bird_eye_active
         THEN [set_bird_eye_view([c EXCEPT !.previous_state = Pose(c)])
                  EXCEPT !.bird_eye_active = TRUE]
         ELSE c
    ELSE IF c.bird_eye_active
         THEN IF c.previous_state # None
              THEN Restore(c)
              ELSE c
         ELSE c

\* handle_input: Up and Down
PitchKeys(c, ks) ==
    LET c1 == IF "Up" \in ks THEN rotate_pitch(c, -rotation_speed) ELSE c
    IN IF "Down" \in ks THEN rotate_pitch(c1, rotation_speed) ELSE c1

\* handle_input: the movement vector of W, A, S and D
Movement(ks) ==
    Vec3((IF "D" \in ks THEN movement_speed ELSE 0) - (IF "A" \in ks THEN movement_speed ELSE 0),
         0,
         (IF "S" \in ks THEN movement_speed ELSE 0) - (IF "W" \in ks THEN movement_speed ELSE 0))

\* handle_input: roll_adjustment of A and D
RollAdjustment(ks) ==
    (IF "A" \in ks THEN bank_angle ELSE 0) - (IF "D" \in ks THEN bank_angle ELSE 0)

\* the roll left as it is when no bank key acts
BankKeys_NoReset(c, ks) ==
    IF RollAdjustment(ks) # 0
    THEN [c EXCEPT !.roll = Clamp(FAdd(c.roll, RollAdjustment(ks)), -(AU \div 10), AU \div 10)]
    ELSE c

\* handle_input: "Aplicar el ajuste de rollo solo si hay movimiento"
BankKeys(c, ks) ==
    IF RollAdjustment(ks) # 0
    THEN [c EXCEPT !.roll = Clamp(FAdd(c.roll, RollAdjustment(ks)), -(AU \div 10), AU \div 10)]
    ELSE [c EXCEPT !.roll = 0]

\* handle_input: "Aplicar movimiento solo si hay entrada"
MoveKeys(c, ks) == IF Magnitude(Movement(ks)) > 0 THEN move_center(c, Movement(ks)) ELSE c

\* handle_input: Q and E
VerticalKeys(c, ks) ==
    [c EXCEPT !.eye[2] = FSub(FAdd(@, IF "Q" \in ks THEN movement_speed ELSE 0),
                              IF "E" \in ks THEN movement_speed ELSE 0)]

\* handle_input: Key1 and Key2
ZoomKeys(c, ks) ==
    LET c1 == IF "Key1" \in ks THEN zoom(c, LU) ELSE c
    IN IF "Key2" \in ks THEN zoom(c1, -LU) ELSE c1

\* handle_input, second part: the navigation keys
NavigationKeys(c, ks) ==
    IF c.bird_eye_active THEN c
    ELSE ZoomKeys(VerticalKeys(MoveKeys(BankKeys(PitchKeys(c, ks), ks), ks), ks), ks)

\* handle_input
handle_input(c, ks) == NavigationKeys(BirdEyeKeys(c, ks), ks)

\* handle_input: the Camera methods its navigation block calls on camera c with keys ks
NavigationCalls(c, ks) ==
    IF BirdEyeKeys(c, ks).bird_eye_active THEN {}
    ELSE (IF "Up" \in ks \/ "Down" \in ks THEN {"rotate_pitch"} ELSE {})
         \cup (IF Magnitude(Movement(ks)) > 0 THEN {"move_center"} ELSE {})
         \cup (IF "Key1" \in ks \/ "Key2" \in ks THEN {"zoom"} ELSE {})

\* main, "Ajusta la posicion de la camara en vista de pajaro"
BirdEyeOverride(c) ==
    IF c.bird_eye_active
    THEN [c EXCEPT !.eye = Vec3(0, 45 * LU, 45 * LU), !.center = Vec3(0, 0, 0)]
    ELSE c

\* main, "Manejar la entrada para el warping": the eight tests, in order from the k-th
RECURSIVE WarpFrom(_, _, _)
WarpFrom(c, ks, k) ==
    IF k > Len(WARP_POINTS) THEN c
    ELSE WarpFrom(IF WarpKey(k) \in ks THEN instant_warp(c, WARP_POINTS[k]) ELSE c, ks, k + 1)

WarpKeys(c, ks) == WarpFrom(c, ks, 1)

NoEntry == [pose |-> None, quiet |-> FALSE]

\* Vec3::dot
Dot3(u, v) == FAdd(FAdd(FMul(u[1], v[1], LU), FMul(u[2], v[2], LU)), FMul(u[3], v[3], LU))

\* Vec3::dot of a vector of length about 1.0 and a vector
Dot(u, v) ==
    IF HasNaN(u) \/ HasNaN(v) THEN NaN
    ELSE RDiv(u[1] * v[1], LU) + RDiv(u[2] * v[2], LU) + RDiv(u[3] * v[3], LU)

\* Mat4::identity() as a view matrix, by its rows and its eye: the eye at the origin
\* looking down -z
IdentityView == [s |-> Vec3(LU, 0, 0), u |-> Vec3(0, LU, 0), f |-> Vec3(0, 0, -LU),
                 eye |-> Vec3(0, 0, 0)]

\* nalgebra_glm::look_at(eye, center, up): the side, up and forward rows of the matrix
look_at(eye, center, up) ==
    LET f == Normalize(VSub(center, eye))
        s == Normalize(Cross(f, up))
    IN [s |-> s, u |-> Cross(s, f), f |-> f, eye |-> eye]

\* create_view_matrix(camera.eye, camera.center, camera.up)
ViewOf(c) == look_at(c.eye, c.center, c.up)

\* the view matrix v applied to the point p
ViewSpace(v, p) ==
    LET d == VSub(p, v.eye)
    IN <<Dot(v.s, d), Dot(v.u, d), FSub(0, Dot(v.f, d))>>

\* create_perspective_matrix applied to the view-space point q: perspective(75 degrees
\* in radians, 800 / 600, 0.1, 1000.0), whose first parameter is the aspect ratio and
\* whose second is the vertical field of view
ClipSpace(q) ==
    IF HasNaN(q) THEN <<NaN, NaN, NaN, NaN>>
    ELSE <<RDiv(q[1] * 971, LU), RDiv(q[2] * 1271, LU),
           -q[3] - RDiv(q[3], 5000) - 200, -q[3]>>

\* is_in_frustum of a body at position p
is_in_frustum(p, v) ==
    \E q \in {ViewSpace(v, p)} : \E c \in {ClipSpace(q)} :
        /\ ~IsNaN(c[4])
        /\ c[1] >= -c[4] /\ c[1] <= c[4]
        /\ c[2] >= -c[4] /\ c[2] <= c[4]
        /\ c[3] >= -c[4] /\ c[3] <= c[4]

\* main: planet_orbit_radii, by the index of the body
planet_orbit_radii == <<0, 10, 15, 20, 25, 30, 35, 40, 5>>

\* main: the position of celestial body i (0 the Sun, 8 the Moon) in frame n, after the
\* orbit update of that frame: the angle of a planet grows by 0.02 / radius a frame,
\* the Moon's by 0.05 around the Earth's position of the frame before
RECURSIVE BodyPosition(_, _)
BodyPosition(i, n) ==
    IF i = 0 THEN Vec3(0, 0, 0)
    ELSE IF i = 8
    THEN VAdd(IF n <= 1 THEN Vec3(12 * LU, 0, 0) ELSE BodyPosition(3, n - 1),
              Vec3(FMul(LU \div 2, Cos(500 * (n - 1)), LU), 0,
                   FMul(LU \div 2, Sin(500 * (n - 1)), LU)))
    ELSE Vec3(planet_orbit_radii[i + 1] * Cos(RDiv(200 * (n - 1), planet_orbit_radii[i + 1])),
              0,
              planet_orbit_radii[i + 1] * Sin(RDiv(200 * (n - 1), planet_orbit_radii[i + 1])))

\* main: celestial_bodies, by the frame and the index of the body: their positions
celestial_bodies == [n \in 1..MaxFrames |-> [i \in 0..8 |-> BodyPosition(i, n)]]

\* main: previous_positions, which nothing is ever pushed to
previous_positions == [i \in 0..8 |-> <<>>]

\* main, the body loop of frame n: some body passes is_in_frustum with the view matrix
\* left by the frame before, and the bound of its trail-line loop,
\* previous_positions[i].len() - 1, is below zero
BodyInFrustum(v, n) ==
    \E i \in 0..8 :
        /\ is_in_frustum(celestial_bodies[n][i], v)
        /\ Len(previous_positions[i]) - 1 < 0

\* the history of the last activation, after handle_input ran on camera c with keys ks
EntryAfter(c, ks) ==
    IF "B" \in ks /\ ~c.bird_eye_active THEN [pose |-> Pose(c), quiet |-> ks = {"B"}]
    ELSE IF c.bird_eye_active THEN [entry EXCEPT !.quiet = @ /\ ks \subseteq {"B"}]
    ELSE NoEntry

----------------------------------------------------------------------------
(* One frame's drawing: render and render_trail (main.rs) on the Framebuffer. *)
(* Screen coordinates are fixed-point too: SU units to the pixel.  A division *)
(* by zero gives a non-finite f32 (an infinity or NaN), which NaN stands for. *)

Width == 4          \* framebuffer.width of the model's framebuffer
Height == 3         \* framebuffer.height of the model's framebuffer
MaxDraws == 2       \* render calls in the frame
MaxParticles == 1   \* trail particles drawn in the frame

SU == 8             \* integer units per pixel of a screen coordinate

\* the f32 quotient a / b
FDiv(a, b) ==
    IF IsNaN(a) \/ IsNaN(b) \/ b = 0 THEN NaN
    ELSE IF b > 0 THEN RDiv(a * LU, b) ELSE RDiv((-a) * LU, -b)

\* `as usize` of a screen coordinate: the fraction is dropped, and a negative value
\* or a NaN becomes 0
AsUsize(v) == IF IsNaN(v) \/ v < 0 THEN 0 ELSE v \div SU

\* create_viewport_matrix applied to (x, y, z, 1)
ViewportX(x) == IF IsNaN(x) THEN NaN ELSE RDiv((x + LU) * Width * SU, 2 * LU)

ViewportY(y) == IF IsNaN(y) THEN NaN ELSE RDiv((LU - y) * Height * SU, 2 * LU)

\* the perspective division and the viewport transform of a clip-space position
ScreenOf(clip) ==
    <<ViewportX(FDiv(clip[1], clip[4])), ViewportY(FDiv(clip[2], clip[4])),
      FDiv(clip[3], clip[4])>>

\* a Color
Color(rule, at, alpha) == [rule |-> rule, at |-> at, alpha |-> alpha]

\* the pixels of the framebuffer, row by row: pixel (x, y) is y * Width + x
Pixels == 0..(Width * Height - 1)

\* the depth of a pixel nothing was drawn on
DepthMax == 10^6

\* the background color main sets (0x000000)
Background == Color("0x000000", Vec3(0, 0, 0), 0)

\* Framebuffer::new followed by set_background_color(0x000000)
NewFramebuffer ==
    [buffer |-> [i \in Pixels |-> Background],
     zbuffer |-> [i \in Pixels |-> DepthMax],
     background_color |-> Background,
     current_color |-> Color("0xFFFFFF", Vec3(0, 0, 0), 0)]

\* Framebuffer::clear
clear(f) ==
    [f EXCEPT !.buffer = [i \in Pixels |-> f.background_color],
              !.zbuffer = [i \in Pixels |-> DepthMax]]

\* Framebuffer::set_current_color
set_current_color(f, color) == [f EXCEPT !.current_color = color]

\* the depth test of Framebuffer::point
DepthTest(f, x, y, depth) ==
    /\ x < Width /\ y < Height
    /\ ~IsNaN(depth)
    /\ depth < f.zbuffer[y * Width + x]

\* Framebuffer::point
point(f, x, y, depth) ==
    IF DepthTest(f, x, y, depth)
    THEN [f EXCEPT !.buffer[y * Width + x] = f.current_color,
                   !.zbuffer[y * Width + x] = depth]
    ELSE f

\* a mesh Vertex: its object-space position and what the matrices of the draw make of
\* it (projection_matrix * view_matrix * model_matrix * position)
Vertex(position, clip) == [position |-> position, clip |-> clip]

\* vertex_shader: the perspective division and the viewport transform
vertex_shader(vertex) ==
    [position |-> vertex.position,
     clip |-> vertex.clip,
     transformed_position |-> ScreenOf(vertex.clip)]

\* render, Vertex Shader Stage
VertexShaderStage(va) == [i \in 1..Len(va) |-> vertex_shader(va[i])]

\* primitive assembly dropping the last triangle of an array whose length is a
\* multiple of three
PrimitiveAssemblyStage_DropLast(tv) ==
    [k \in 1..((Len(tv) - 1) \div 3) |-> <<tv[3 * k - 2], tv[3 * k - 1], tv[3 * k]>>]

\* render, Primitive Assembly Stage: i = 0, 3, 6, ... with i + 2 < len
PrimitiveAssemblyStage(tv) ==
    LET starts == {i \in 0..(Len(tv) - 1) : i % 3 = 0 /\ i + 2 < Len(tv)}
    IN [k \in 1..Cardinality(starts) |->
           <<tv[3 * (k - 1) + 1], tv[3 * (k - 1) + 2], tv[3 * (k - 1) + 3]>>]

\* the edge function of the segment from p to q at r
EdgeFunction(p, q, r) == (r[1] - p[1]) * (q[2] - p[2]) - (r[2] - p[2]) * (q[1] - p[1])

\* the center of pixel i
PixelCenter(i) == <<(i % Width) * SU + SU \div 2, (i \div Width) * SU + SU \div 2>>

Min2(a, b) == IF a < b THEN a ELSE b

\* pixel i lies in the bounding box of a, b and c
InBoundingBox(i, a, b, c) ==
    /\ (i % Width) * SU + SU > Min2(Min2(a[1], b[1]), c[1])
    /\ (i % Width) * SU <= Max2(Max2(a[1], b[1]), c[1])
    /\ (i \div Width) * SU + SU > Min2(Min2(a[2], b[2]), c[2])
    /\ (i \div Width) * SU <= Max2(Max2(a[2], b[2]), c[2])

\* the barycentric weights of the center of pixel i, as multiples of 1 / area
Weights(i, a, b, c) ==
    <<EdgeFunction(b, c, PixelCenter(i)), EdgeFunction(c, a, PixelCenter(i)),
      EdgeFunction(a, b, PixelCenter(i))>>

\* the weights are all non-negative (they are the edge functions over the area)
Inside(w, area) ==
    /\ area # 0
    /\ \A j \in 1..3 : IF area > 0 THEN w[j] >= 0 ELSE w[j] <= 0

\* the weighted sum of the attribute values x, y and z
Interpolate(w, area, x, y, z) == RDiv(Abs(w[1]) * x + Abs(w[2]) * y + Abs(w[3]) * z, Abs(area))

\* the Fragment of pixel i in triangle number k of the draw
Fragment(i, k, w, area, t) ==
    [position |-> <<(i % Width) * SU, (i \div Width) * SU>>,
     depth |-> Interpolate(w, area, t[1].transformed_position[3],
                           t[2].transformed_position[3], t[3].transformed_position[3]),
     vertex_position |->
         [j \in 1..3 |-> Interpolate(w, area, t[1].position[j], t[2].position[j],
                                     t[3].position[j])],
     tri |-> k]

\* the pixels triangle t covers, in scan order
Covered(t) ==
    LET a == t[1].transformed_position
        b == t[2].transformed_position
        c == t[3].transformed_position
    IN IF HasNaN(a) \/ HasNaN(b) \/ HasNaN(c) THEN <<>>
       ELSE SelectSeq([n \in 1..(Width * Height) |-> n - 1],
                      LAMBDA i : /\ InBoundingBox(i, a, b, c)
                                 /\ Inside(Weights(i, a, b, c), EdgeFunction(a, b, c)))

\* triangle(v1, v2, v3): the fragments of triangle number k of the draw
triangle(t, k) ==
    LET a == t[1].transformed_position
        b == t[2].transformed_position
        c == t[3].transformed_position
        px == Covered(t)
    IN [n \in 1..Len(px) |->
           Fragment(px[n], k, Weights(px[n], a, b, c), EdgeFunction(a, b, c), t)]

RECURSIVE RasterFrom(_, _)
\* render, Rasterization Stage: the fragments of triangles k, k + 1, ...
RasterFrom(ts, k) ==
    IF k > Len(ts) THEN <<>> ELSE triangle(ts[k], k) \o RasterFrom(ts, k + 1)

RasterizationStage(ts) == RasterFrom(ts, 1)

\* blend_layers
blend_layers(base, overlay) == Color(base.rule \o "+" \o overlay.rule, base.at, 0)

\* fragment_shader: the shading rule of the tag, applied at the fragment
fragment_shader(fragment, tag) ==
    LET at == fragment.vertex_position
    IN CASE tag = "Sun" -> Color("sun_shader", at, 0)
         [] tag = "RockyPlanet" -> Color("rocky_planet_shader", at, 0)
         [] tag = "Earth" ->
                blend_layers(Color("earth_shader", at, 0), Color("cloud_shader", at, 0))
         [] tag = "CrystalPlanet" -> Color("crystal_planet_shader", at, 0)
         [] tag = "FirePlanet" -> Color("fire_planet_shader", at, 0)
         [] tag = "WaterPlanet" -> Color("water_planet_shader", at, 0)
         [] tag = "CloudPlanet" -> Color("cloud_planet_shader", at, 0)
         [] tag = "Moon" -> Color("moon_shader", at, 0)
         [] tag = "Asteroid" -> Color("asteroid_shader", at, 0)
         [] tag = "Trail" ->
                blend_layers(Color("100,100,255", at, 0), Color("calculate_trail_effect", at, 0))
         [] tag = "Spaceship" -> Color("192,192,192", Vec3(0, 0, 0), 0)
         [] OTHER -> Color("0,0,0", Vec3(0, 0, 0), 0)

\* render, Fragment Processing Stage: the pixel of a fragment
FragmentX(fragment) == AsUsize(fragment.position[1])

FragmentY(fragment) == AsUsize(fragment.position[2])

\* render, Fragment Processing Stage: the bounds test
FragmentInBounds(fragment) == FragmentX(fragment) < Width /\ FragmentY(fragment) < Height

\* the point call of the fragment stage with the depth left out
FragmentDepth_Zero(fragment) == 0

\* render, Fragment Processing Stage: the depth handed to framebuffer.point
FragmentDepth(fragment) == fragment.depth

\* render_trail: position_screen of a particle
TrailScreen(particle) == ScreenOf(particle.clip)

\* render_trail: the particle's color with the alpha of its lifetime
TrailColor(particle) ==
    Color(particle.color, Vec3(0, 0, 0),
          ((particle.lifetime \div LU) * 255 + ((particle.lifetime % LU) * 255) \div LU) % 256)

\* render_trail: the framebuffer.point calls it makes for a particle (none or one)
TrailPoints(particle) ==
    IF ~IsNaN(particle.clip[4]) /\ particle.clip[4] <= 0 THEN {}
    ELSE LET s == TrailScreen(particle)
         IN IF AsUsize(s[1]) < Width /\ AsUsize(s[2]) < Height
            THEN {[x |-> AsUsize(s[1]), y |-> AsUsize(s[2]), depth |-> s[3],
                   color |-> TrailColor(particle)]}
            ELSE {}

\* render_trail
render_trail(f, particle) ==
    IF TrailPoints(particle) = {} THEN f
    ELSE LET p == CHOOSE q \in TrailPoints(particle) : TRUE
         IN point(set_current_color(f, p.color), p.x, p.y, p.depth)

\* the shader types of main's celestial_bodies, in their order, and of the ship, which
\* is drawn last
DrawTags ==
    <<"Sun", "Asteroid", "RockyPlanet", "Earth", "CrystalPlanet", "FirePlanet",
      "WaterPlanet", "CloudPlanet", "Moon", "Spaceship">>

\* the clip-space position with normalized device coordinates (x, y, z) and the given w
ClipOf(x, y, z, w) == <<(x * w) \div LU, (y * w) \div LU, (z * w) \div LU, w>>

\* a triangle over the upper left half of the screen at device depth z, its vertices
\* at clip-space w and at object-space height h
UpperLeft(z, w, h) ==
    <<Vertex(Vec3(0, h, 0), ClipOf(-LU, LU, z, w)),
      Vertex(Vec3(LU, h, 0), ClipOf(LU, LU, z, w)),
      Vertex(Vec3(0, h, LU), ClipOf(-LU, -LU, z, w))>>

\* a triangle whose screen positions all lie right of the framebuffer
RightOfScreen ==
    <<Vertex(Vec3(0, 0, 0), ClipOf(2 * LU, LU, 500, LU)),
      Vertex(Vec3(LU, 0, 0), ClipOf(3 * LU, LU, 500, LU)),
      Vertex(Vec3(0, 0, LU), ClipOf(2 * LU, -LU, 500, LU))>>

\* a triangle with one vertex in the camera's plane (w = 0)
InCameraPlane ==
    <<Vertex(Vec3(0, 0, 0), <<-LU, LU, 500, 0>>),
      Vertex(Vec3(LU, 0, 0), ClipOf(LU, LU, 500, LU)),
      Vertex(Vec3(0, 0, LU), ClipOf(-LU, -LU, 500, LU))>>

\* the vertex arrays handed to render: of 0, 4, 5 and 6 vertices; a near and a far
\* triangle, alone and together in both orders; a triangle behind the camera (w < 0);
\* a triangle off the screen followed by one with a vertex in the camera's plane
Meshes ==
    {<<>>,
     UpperLeft(250, LU, 0) \o SubSeq(UpperLeft(750, LU, LU), 1, 1),
     UpperLeft(750, 2 * LU, LU) \o SubSeq(UpperLeft(250, LU, 0), 1, 2),
     UpperLeft(250, LU, 0) \o UpperLeft(750, LU, LU),
     UpperLeft(750, LU, LU) \o UpperLeft(250, LU, 0),
     UpperLeft(500, -LU, 2 * LU),
     RightOfScreen \o InCameraPlane}

\* a TrailParticle: what the matrices make of its position, its color and lifetime
TrailParticle(clip, color, lifetime) == [clip |-> clip, color |-> color, lifetime |-> lifetime]

\* the particles handed to render_trail: one in the middle of the screen, one left of
\* it, one right of it and one behind the camera
Particles ==
    {TrailParticle(ClipOf(0, 0, 500, LU), "0xFF9370DB", 1984),
     TrailParticle(ClipOf(-2 * LU, 0, 500, LU), "0xFFFFA500", 199999 * LU),
     TrailParticle(ClipOf(2 * LU, 0, 500, LU), "0xFF32CD32", 199999 * LU),
     TrailParticle(ClipOf(0, 0, 500, -LU), "0xFF32CD32", 199999 * LU)}

NoColor == Color("none", Vec3(0, 0, 0), 0)

NoFragment == [position |-> <<0, 0>>, depth |-> 0, vertex_position |-> Vec3(0, 0, 0), tri |-> 0]

NoTest == [fragment |-> NoFragment, passed |-> FALSE, shaded |-> FALSE]

NoTrail == [clip |-> <<0, 0, 0, 0>>, screen |-> NaNVec, points |-> {}]

\* the state of the drawing before the first frame
DrawInit ==
    /\ framebuffer = NewFramebuffer
    /\ stage = "clear"
    /\ draws = 0
    /\ planet_type = "Sun"
    /\ vertex_array = <<>>
    /\ transformed_vertices = <<>>
    /\ triangles = <<>>
    /\ fragments = <<>>
    /\ shaded = NoColor
    /\ tested = NoTest
    /\ points = {}
    /\ trail = NoTrail
    /\ particles = 0

\* main: framebuffer.clear()
Clear ==
    /\ stage = "clear"
    /\ framebuffer' = clear(framebuffer)
    /\ points' = {}
    /\ stage' = "trails"
    /\ UNCHANGED <<draws, planet_type, vertex_array, transformed_vertices, triangles,
                   fragments, shaded, tested, trail, particles>>
    /\ UNCHANGED camVars

\* main: render_trail of one particle
RenderTrail ==
    /\ stage = "trails"
    /\ particles < MaxParticles
    /\ \E p \in Particles :
         /\ framebuffer' = render_trail(framebuffer, p)
         /\ points' = points \cup TrailPoints(p)
         /\ trail' = [clip |-> p.clip, screen |-> TrailScreen(p), points |-> TrailPoints(p)]
    /\ particles' = particles + 1
    /\ UNCHANGED <<stage, draws, planet_type, vertex_array, transformed_vertices,
                   triangles, fragments, shaded, tested>>
    /\ UNCHANGED camVars

\* render is called for the next entity and runs its Vertex Shader Stage
VertexStage ==
    /\ stage \in {"trails", "idle"}
    /\ draws < MaxDraws
    /\ \E va \in Meshes :
         /\ vertex_array' = va
         /\ transformed_vertices' = VertexShaderStage(va)
    /\ planet_type' = DrawTags[draws + 1]
    /\ triangles' = <<>>
    /\ stage' = "assembly"
    /\ UNCHANGED <<framebuffer, draws, fragments, shaded, tested, points, trail, particles>>
    /\ UNCHANGED camVars

\* render: Primitive Assembly Stage
PrimitiveAssembly ==
    /\ stage = "assembly"
    /\ triangles' = PrimitiveAssemblyStage(transformed_vertices)
    /\ stage' = "raster"
    /\ UNCHANGED <<framebuffer, draws, planet_type, vertex_array, transformed_vertices,
                   fragments, shaded, tested, points, trail, particles>>
    /\ UNCHANGED camVars

\* render: Rasterization Stage
Rasterization ==
    /\ stage = "raster"
    /\ fragments' = RasterizationStage(triangles)
    /\ stage' = "fragment"
    /\ UNCHANGED <<framebuffer, draws, planet_type, vertex_array, transformed_vertices,
                   triangles, shaded, tested, points, trail, particles>>
    /\ UNCHANGED camVars

\* the fragment stage shading a fragment only when it passes the depth test
ShadeFragment_DepthFirst ==
    /\ stage = "fragment"
    /\ fragments # <<>>
    /\ shaded = NoColor
    /\ IF /\ FragmentInBounds(Head(fragments))
          /\ DepthTest(framebuffer, FragmentX(Head(fragments)), FragmentY(Head(fragments)),
                       FragmentDepth(Head(fragments)))
       THEN /\ shaded' = fragment_shader(Head(fragments), planet_type)
            /\ UNCHANGED fragments
       ELSE /\ fragments' = Tail(fragments)
            /\ UNCHANGED shaded
    /\ UNCHANGED <<framebuffer, stage, draws, planet_type, vertex_array,
                   transformed_vertices, triangles, tested, points, trail, particles>>
    /\ UNCHANGED camVars

\* render, Fragment Processing Stage, first half: the bounds test and fragment_shader
\* for the next fragment; a fragment out of bounds is dropped
ShadeFragment ==
    /\ stage = "fragment"
    /\ fragments # <<>>
    /\ shaded = NoColor
    /\ IF FragmentInBounds(Head(fragments))
       THEN /\ shaded' = fragment_shader(Head(fragments), planet_type)
            /\ UNCHANGED fragments
       ELSE /\ fragments' = Tail(fragments)
            /\ UNCHANGED shaded
    /\ UNCHANGED <<framebuffer, stage, draws, planet_type, vertex_array,
                   transformed_vertices, triangles, tested, points, trail, particles>>
    /\ UNCHANGED camVars

\* render, Fragment Processing Stage, second half: set_current_color and point for the
\* fragment just shaded
PointFragment ==
    /\ stage = "fragment"
    /\ shaded # NoColor
    /\ framebuffer' = point(set_current_color(framebuffer, shaded),
                            FragmentX(Head(fragments)), FragmentY(Head(fragments)),
                            FragmentDepth(Head(fragments)))
    /\ tested' = [fragment |-> Head(fragments),
                  passed |-> DepthTest(framebuffer, FragmentX(Head(fragments)),
                                       FragmentY(Head(fragments)),
                                       FragmentDepth(Head(fragments))),
                  shaded |-> TRUE]
    /\ points' = points \cup {[x |-> FragmentX(Head(fragments)),
                               y |-> FragmentY(Head(fragments)),
                               depth |-> Head(fragments).depth,
                               color |-> shaded]}
    /\ fragments' = Tail(fragments)
    /\ shaded' = NoColor
    /\ UNCHANGED <<stage, draws, planet_type, vertex_array, transformed_vertices,
                   triangles, trail, particles>>
    /\ UNCHANGED camVars

\* render returning while fragments are left
EndDraw_Early ==
    /\ stage = "fragment"
    /\ shaded = NoColor
    /\ stage' = "idle"
    /\ draws' = draws + 1
    /\ UNCHANGED <<framebuffer, planet_type, vertex_array, transformed_vertices, triangles,
                   fragments, shaded, tested, points, trail, particles>>
    /\ UNCHANGED camVars

\* render returns: the fragment loop has run out
EndDraw ==
    /\ stage = "fragment"
    /\ fragments = <<>>
    /\ shaded = NoColor
    /\ stage' = "idle"
    /\ draws' = draws + 1
    /\ UNCHANGED <<framebuffer, planet_type, vertex_array, transformed_vertices, triangles,
                   fragments, shaded, tested, points, trail, particles>>
    /\ UNCHANGED camVars

\* update_with_buffer called while a render call is still processing fragments
Present_Early ==
    /\ stage \in {"fragment", "idle"}
    /\ shaded = NoColor
    /\ stage' = "presented"
    /\ UNCHANGED <<framebuffer, draws, planet_type, vertex_array, transformed_vertices,
                   triangles, fragments, shaded, tested, points, trail, particles>>
    /\ UNCHANGED camVars

\* main: update_with_buffer presents the frame after the last draw
Present ==
    /\ stage = "idle"
    /\ stage' = "presented"
    /\ UNCHANGED <<framebuffer, draws, planet_type, vertex_array, transformed_vertices,
                   triangles, fragments, shaded, tested, points, trail, particles>>
    /\ UNCHANGED camVars

\* main: the loop comes round: the window is open, Escape is up, handle_input runs; the
\* next frame is about to clear the framebuffer, and render's locals are gone
NextFrame ==
    /\ stage = "presented"
    /\ stage' = "clear"
    /\ draws' = 0
    /\ planet_type' = "Sun"
    /\ vertex_array' = <<>>
    /\ transformed_vertices' = <<>>
    /\ triangles' = <<>>
    /\ tested' = NoTest
    /\ trail' = NoTrail
    /\ particles' = 0
    /\ UNCHANGED <<framebuffer, fragments, shaded, points>>
    /\ UNCHANGED camVars

----------------------------------------------------------------------------
(* shaders.rs: vertex_shader's transform of the normal.  A Mat3 is the tuple *)
(* of its rows                                                             *)

\* Mat3::identity()
IdentityMat3 == <<Vec3(LU, 0, 0), Vec3(0, LU, 0), Vec3(0, 0, LU)>>

\* Mat3::transpose
Transpose(m) == [i \in 1..3 |-> [j \in 1..3 |-> m[j][i]]]

\* the minor of m that leaves out row i and column j, by the cyclic formula of the
\* cofactor (sign included)
Cofactor(m, i, j) ==
    LET r1 == (i % 3) + 1
        r2 == ((i + 1) % 3) + 1
        c1 == (j % 3) + 1
        c2 == ((j + 1) % 3) + 1
    IN FSub(FMul(m[r1][c1], m[r2][c2], LU), FMul(m[r1][c2], m[r2][c1], LU))

\* Mat3::determinant
Determinant(m) ==
    FAdd(FAdd(FMul(m[1][1], Cofactor(m, 1, 1), LU), FMul(m[1][2], Cofactor(m, 1, 2), LU)),
         FMul(m[1][3], Cofactor(m, 1, 3), LU))

\* Mat3::try_inverse: None when the determinant is zero, else the adjugate over it
try_inverse(m) ==
    LET det == Determinant(m)
    IN IF det = 0 THEN None
       ELSE [i \in 1..3 |-> [j \in 1..3 |-> FDiv(Cofactor(m, j, i), det)]]

\* Mat3 * Vec3
MatVec(m, v) == [i \in 1..3 |-> Dot3(m[i], v)]

\* the normal matrix falling back to the zero matrix
normal_matrix_ZeroFallback(model_mat3) ==
    IF try_inverse(Transpose(model_mat3)) = None
    THEN <<Vec3(0, 0, 0), Vec3(0, 0, 0), Vec3(0, 0, 0)>>
    ELSE try_inverse(Transpose(model_mat3))

\* vertex_shader: normal_matrix
normal_matrix(model_mat3) ==
    IF try_inverse(Transpose(model_mat3)) = None
    THEN IdentityMat3
    ELSE try_inverse(Transpose(model_mat3))

\* vertex_shader: transformed_normal
transformed_normal(model_mat3, normal) == MatVec(normal_matrix(model_mat3), normal)

\* a uniform scale, as create_model_matrix gives it without rotation
Scale(k) == <<Vec3(k, 0, 0), Vec3(0, k, 0), Vec3(0, 0, k)>>

\* linear parts of model matrices: scales (0.0 is singular), quarter turns about y and
\* z, and matrices of rank 0, 1 and 2
ModelMatrices ==
    {Scale(0), Scale(LU), Scale(2 * LU), Scale(LU \div 2),
     <<Vec3(0, 0, LU), Vec3(0, LU, 0), Vec3(-LU, 0, 0)>>,
     <<Vec3(0, -2 * LU, 0), Vec3(2 * LU, 0, 0), Vec3(0, 0, 2 * LU)>>,
     <<Vec3(LU, 0, 0), Vec3(0, LU, 0), Vec3(0, 0, 0)>>,
     <<Vec3(LU, 2 * LU, 3 * LU), Vec3(2 * LU, 4 * LU, 6 * LU), Vec3(0, 0, LU)>>,
     <<Vec3(LU, 2 * LU, 3 * LU), Vec3(0, LU, LU), Vec3(LU, 3 * LU, 4 * LU)>>,
     <<Vec3(LU, LU, LU), Vec3(LU, LU, LU), Vec3(LU, LU, LU)>>,
     <<Vec3(LU, LU, 0), Vec3(0, LU, LU), Vec3(0, 0, LU)>>,
     <<Vec3(2 * LU, 0, LU), Vec3(0, LU, 0), Vec3(LU, 0, LU)>>}

\* normals of mesh vertices
Normals ==
    {Vec3(LU, 0, 0), Vec3(0, LU, 0), Vec3(0, 0, LU), Vec3(-LU, 0, 0), Vec3(0, -LU, 0),
     Vec3(0, 0, -LU), Vec3(707, 707, 0), Vec3(0, -707, 707), Vec3(577, 577, 577),
     Vec3(600, 0, 800)}

\* vertex_shader transforms the normal of a vertex
TransformNormal ==
    /\ \E m \in ModelMatrices, n \in Normals :
         normal_of' = [model |-> m, normal |-> n,
                       transformed_normal |-> transformed_normal(m, n)]
    /\ UNCHANGED <<camera, keys, pc, frame, start, entry, calls, last, zoomVars, sceneVars,
                   body_trail, trail_op, drawVars>>

----------------------------------------------------------------------------
(* main.rs: Trail, the particles a body leaves behind *)

TrailCapacity == 2      \* max_particles of the trail followed
MaxTrailCalls == 5      \* Trail calls followed

\* Trail::new
Trail_new(max_particles) ==
    [particles |-> <<>>, max_particles |-> max_particles, spawn_timer |-> 0]

\* Trail::update: what the closure of retain_mut does to a particle
Aged(particle, dt) ==
    [particle EXCEPT !.lifetime = FSub(@, dt), !.size = FMul(@, 999, LU)]

\* Trail::update: the test the closure of retain_mut returns
Retained(particle) == ~IsNaN(particle.lifetime) /\ particle.lifetime > 0

\* update keeping the particles whose lifetime has just reached 0.0
update_KeepExpired(t, dt) ==
    [t EXCEPT !.particles =
        SelectSeq([i \in DOMAIN t.particles |-> Aged(t.particles[i], dt)],
                  LAMBDA q : q.lifetime >= 0)]

\* Trail::update
update(t, dt) ==
    [t EXCEPT !.particles =
        SelectSeq([i \in DOMAIN t.particles |-> Aged(t.particles[i], dt)], Retained)]

\* Trail::add_particle: trail_color
trail_color(tag) ==
    CASE tag = "Sun" -> "0xFFFFA500"
      [] tag = "RockyPlanet" -> "0xFFD2B48C"
      [] tag = "Earth" -> "0xFF32CD32"
      [] tag = "CrystalPlanet" -> "0xFFFF00FF"
      [] tag = "FirePlanet" -> "0xFFFF4500"
      [] tag = "WaterPlanet" -> "0xFF40E0D0"
      [] tag = "CloudPlanet" -> "0xFFFFD700"
      [] tag = "Moon" -> "0xFF9370DB"
      [] tag = "Asteroid" -> "0xFFFFA500"
      [] tag = "Spaceship" -> "0xFFFFFFFF"
      [] tag = "Trail" -> "0xFF888888"
      [] OTHER -> "0xFFFFFFFF"

\* Trail::add_particle: the particle pushed; id is the number of the call, kept to tell
\* the particles apart
NewParticle(position, is_moon, tag, id) ==
    [position |-> position,
     color |-> trail_color(tag),
     lifetime |-> IF is_moon THEN 2 * LU ELSE 200000 * LU,
     size |-> IF is_moon THEN LU \div 5 ELSE LU \div 2,
     id |-> id]

\* add_particle making room by removing the newest particle
add_particle_DropNewest(t, position, is_moon, tag, id) ==
    [t EXCEPT !.particles =
        (IF Len(@) >= t.max_particles THEN SubSeq(@, 1, Len(@) - 1) ELSE @)
            \o <<NewParticle(position, is_moon, tag, id)>>]

\* Trail::add_particle (its color argument is not used)
add_particle(t, position, is_moon, tag, id) ==
    [t EXCEPT !.particles =
        (IF Len(@) >= t.max_particles THEN Tail(@) ELSE @)
            \o <<NewParticle(position, is_moon, tag, id)>>]

\* main: the trail update of a frame, body.trail.update(0.016), and a client's update
\* by a whole second
TrailSteps == {16, LU}

\* a call of Trail::update
TrailUpdate ==
    /\ trail_op.n < MaxTrailCalls
    /\ \E dt \in TrailSteps :
         /\ body_trail' = update(body_trail, dt)
         /\ trail_op' = [op |-> "update", dt |-> dt, n |-> trail_op.n + 1]
    /\ UNCHANGED <<camera, keys, pc, frame, start, entry, calls, last, zoomVars, sceneVars,
                   normal_of, drawVars>>

\* a call of Trail::add_particle, as main makes it for the Moon or for the Earth at the
\* position the body has
TrailAdd ==
    /\ trail_op.n < MaxTrailCalls
    /\ \E tag \in {"Moon", "Earth"} :
         body_trail' = add_particle(body_trail, Vec3(trail_op.n * LU, 0, 0), tag = "Moon",
                                    tag, trail_op.n + 1)
    /\ trail_op' = [op |-> "add_particle", dt |-> 0, n |-> trail_op.n + 1]
    /\ UNCHANGED <<camera, keys, pc, frame, start, entry, calls, last, zoomVars, sceneVars,
                   normal_of, drawVars>>

----------------------------------------------------------------------------
(* The frame loop of main *)

Init ==
    /\ camera = New(Vec3(0, 0, 10 * LU), Vec3(0, 0, 0), Vec3(0, LU, 0))
    /\ keys = {}
    /\ pc = "input"
    /\ frame = 0
    /\ start = camera
    /\ entry = NoEntry
    /\ calls = 0
    /\ last = "new"
    /\ prezoom = camera
    /\ zoomed = 0
    /\ view = IdentityView
    /\ build = "any"
    /\ body_trail = Trail_new(TrailCapacity)
    /\ trail_op = [op |-> "new", dt |-> 0, n |-> 0]
    /\ normal_of = [model |-> IdentityMat3, normal |-> Vec3(0, 0, LU),
                    transformed_normal |-> Vec3(0, 0, LU)]
    /\ DrawInit

\* main: the loop is left when Escape is down
Escape ==
    /\ pc = "input"
    /\ pc' = "closed"
    /\ UNCHANGED <<camera, keys, frame, start, entry, calls, last, zoomVars, sceneVars,
                   drawVars, trailVars>>

\* main: the frame starts; handle_input runs with the keys the window reports
HandleInput ==
    /\ pc = "input"
    /\ frame < MaxFrames
    /\ \E ks \in KeyCombos :
         /\ keys' = ks
         /\ camera' = handle_input(camera, ks)
         /\ entry' = EntryAfter(camera, ks)
    /\ frame' = frame + 1
    /\ pc' = "render"
    /\ UNCHANGED <<start, calls, last, zoomVars, sceneVars, drawVars, trailVars>>

\* main, the body loop with overflow checks on: the first body found in the frustum is
\* drawn, and the bound of its trail-line loop, previous_positions[i].len() - 1 of an
\* empty list, overflows: the program panics
Panic ==
    /\ pc = "render"
    /\ BodyInFrustum(view, frame)
    /\ build \in {"any", "debug"}
    /\ build' = "debug"
    /\ view' = ViewOf(camera)
    /\ pc' = "panicked"
    /\ UNCHANGED <<camera, keys, frame, start, entry, calls, last, zoomVars, drawVars, trailVars>>

\* main: the rest of the frame: the bodies are drawn (without overflow checks the bound
\* of the trail-line loop wraps around and the loop, whose body never runs, does
\* nothing), the overhead view's eye is overridden, the ship is drawn, the warp keys are
\* served and the frame is presented (update_with_buffer, which also polls the keys of
\* the next frame)
Render ==
    /\ pc = "render"
    /\ LET drawn == BodyInFrustum(view, frame)
       IN /\ drawn => build \in {"any", "release"}
          /\ build' = IF drawn THEN "release" ELSE build
    /\ camera' = WarpKeys(BirdEyeOverride(camera), keys)
    /\ view' = ViewOf(BirdEyeOverride(camera))
    /\ start' = camera'
    /\ keys' = {}
    /\ pc' = "input"
    /\ UNCHANGED <<frame, entry, calls, last, zoomVars, drawVars, trailVars>>

Next == Escape \/ HandleInput \/ Panic \/ Render

Spec == Init /\ [][Next]_vars

----------------------------------------------------------------------------
(* The Camera operations called one at a time, in any order, by a client *)

MaxCalls == 3       \* Camera calls the client makes

\* angles the client passes: a frame's rotation step, and half turns that reach the clamps
AngleDeltas == {-PI, rotation_speed, PI}

\* (delta_yaw, delta_pitch) pairs the client passes to orbit
OrbitDeltas == {<<rotation_speed, rotation_speed>>, <<rotation_speed, PI>>, <<-PI, -PI>>}

\* distances the client passes
Amounts == {-LU, LU}

\* vectors the client passes to move_center: handle_input's A and W movements
Movements == {Vec3(-movement_speed, 0, 0), Vec3(0, 0, -movement_speed)}

\* main's delta_time (0.016) and inputs tuple, and a second pair that also pitches and yaws
delta_time == 16
inputs == <<LU, 0, 0, AU \div 10, 0, 0>>
MoveInputs == {<<delta_time, inputs>>, <<LU, <<0, LU, LU, -PI, PI, rotation_speed>>>>}

\* one call of a Camera method: the camera becomes c and the call is recorded
Call(op, c) ==
    /\ calls < MaxCalls
    /\ camera' = c
    /\ last' = op
    /\ calls' = calls + 1
    /\ UNCHANGED <<keys, pc, frame, start, entry, zoomVars, sceneVars, drawVars, trailVars>>

CallOrbit == \E d \in OrbitDeltas : Call("orbit", orbit(camera, d[1], d[2]))

CallZoom == \E d \in Amounts : Call("zoom", zoom(camera, d))

CallMoveCenter == \E v \in Movements : Call("move_center", move_center(camera, v))

CallMoveForward == Call("move_forward", move_forward(camera, movement_speed))

CallMoveUp == Call("move_up", move_up(camera, movement_speed))

CallRotateYaw == \E a \in {rotation_speed, PI} : Call("rotate_yaw", rotate_yaw(camera, a))

CallRotatePitch == \E a \in AngleDeltas : Call("rotate_pitch", rotate_pitch(camera, a))

CallMoveCamera ==
    \E d \in {0, rotation_speed, PI} :
        Call("move_camera", move_camera(camera, delta_time, d, -d, d))

CallMoveAndRotate ==
    \E m \in MoveInputs : Call("move_and_rotate", move_and_rotate(camera, m[1], m[2]))

CallUpdateRotation ==
    \E d \in {rotation_speed, PI} : Call("update_rotation", update_rotation(camera, d, -d, d))

CallResetRotation == Call("reset_rotation", reset_rotation(camera))

CallSetBirdEyeView == Call("set_bird_eye_view", set_bird_eye_view(camera))

CallSetNormalView == Call("set_normal_view", set_normal_view(camera))

CallCheckIfChanged == Call("check_if_changed", check_if_changed(camera))

\* the activation command: handle_input's B branch with B down
Activate == Call("activate", BirdEyeKeys(camera, {"B"}))

\* the deactivation command: handle_input's B branch with B up
Deactivate == Call("deactivate", BirdEyeKeys(camera, {}))

NextCam ==
    \/ CallOrbit
    \/ CallZoom
    \/ CallMoveCenter
    \/ CallMoveForward
    \/ CallMoveUp
    \/ CallRotateYaw
    \/ CallRotatePitch
    \/ CallMoveCamera
    \/ CallMoveAndRotate
    \/ CallUpdateRotation
    \/ CallResetRotation
    \/ CallSetBirdEyeView
    \/ CallSetNormalView
    \/ CallCheckIfChanged
    \/ Activate
    \/ Deactivate

SpecCam == Init /\ [][NextCam]_vars

----------------------------------------------------------------------------
(* A client that zooms: orbit and move_center place the camera, zoom moves the eye *)

\* deltas the client passes to zoom: half a unit, the 5.0 of the documented scenario,
\* and 12.0, which is more than the distance from the initial eye to the center
ZoomAmounts == {-12 * LU, -5 * LU, -(LU \div 2), LU \div 2, 5 * LU, 12 * LU}

\* one zoom call; the camera it was made on and its delta are remembered
ZoomBy ==
    \E d \in ZoomAmounts :
        /\ calls < MaxCalls
        /\ camera' = zoom(camera, d)
        /\ last' = "zoom"
        /\ calls' = calls + 1
        /\ prezoom' = camera
        /\ zoomed' = d
        /\ UNCHANGED <<keys, pc, frame, start, entry, sceneVars, drawVars, trailVars>>

NextZoom == CallOrbit \/ CallMoveCenter \/ ZoomBy

SpecZoom == Init /\ [][NextZoom]_vars

----------------------------------------------------------------------------
(* A trail that is updated and added to, in any order *)

NextTrail == TrailUpdate \/ TrailAdd

SpecTrail == Init /\ [][NextTrail]_vars

----------------------------------------------------------------------------
(* vertex_shader's normal transform, on any model matrix and normal *)

NextNormal == TransformNormal

SpecNormal == Init /\ [][NextNormal]_vars

----------------------------------------------------------------------------
(* The drawing of one frame, step by step *)

NextDraw ==
    \/ Clear
    \/ RenderTrail
    \/ VertexStage
    \/ PrimitiveAssembly
    \/ Rasterization
    \/ ShadeFragment
    \/ PointFragment
    \/ EndDraw
    \/ Present
    \/ NextFrame

SpecDraw == Init /\ [][NextDraw]_vars

----------------------------------------------------------------------------
(* Properties *)

\* the operations the specification calls navigation
NavigationOps == {"orbit", "zoom", "move_center", "move_forward", "move_up",
                  "rotate_yaw", "rotate_pitch", "move_camera", "move_and_rotate"}

\* the frame whose handle_input just returned left the overhead view
JustReleased == pc = "render" /\ start.bird_eye_active /\ ~camera.bird_eye_active

\* C1: when B was pressed in free-fly, held and released with no other key down in any
\* of those frames, then as soon as handle_input of the releasing frame has returned,
\* eye, center, pitch, yaw and roll are what they were right before the activation.
C1_RoundTripRestoresPose ==
    (JustReleased /\ entry.quiet) => Pose(camera) = entry.pose

\* C2: while bird_eye_active is true, a call of any navigation operation leaves eye,
\* center, up, yaw, pitch and roll as they were.
C2_NavigationRejectedInOverview ==
    [][(camera.bird_eye_active /\ calls' = calls + 1 /\ last' \in NavigationOps)
         => /\ camera'.eye = camera.eye
            /\ camera'.center = camera.center
            /\ camera'.up = camera.up
            /\ camera'.yaw = camera.yaw
            /\ camera'.pitch = camera.pitch
            /\ camera'.roll = camera.roll]_vars

\* C3: in a frame that starts in the overhead view and has B down, eye, center, pitch,
\* yaw and roll at the end of the frame are what they were at its start, whatever
\* other keys are down.
C3_OverviewFrameKeepsPose ==
    [][(pc = "render" /\ pc' = "input" /\ start.bird_eye_active /\ "B" \in keys)
         => Pose(camera') = Pose(start)]_vars

\* C4: the snapshot is present exactly when the overhead flag is up.
C4_SnapshotIffOverview ==
    (camera.previous_state # None) <=> camera.bird_eye_active

C4_Witness ==
    /\ pc = "render"
    /\ ~start.bird_eye_active
    /\ camera.bird_eye_active
    /\ camera.previous_state = Pose(start)

\* the step in which handle_input leaves the overhead view
ExitStep ==
    /\ pc = "input" /\ pc' = "render"
    /\ "B" \notin keys'
    /\ camera.bird_eye_active /\ ~camera'.bird_eye_active

\* the step in which handle_input enters the overhead view
EntryStep ==
    /\ pc = "input" /\ pc' = "render"
    /\ "B" \in keys'
    /\ ~camera.bird_eye_active /\ camera'.bird_eye_active

\* C5: a snapshot, once taken, is changed by no frame step except the exit transition,
\* which clears it; and a snapshot appears only in the entry transition, so that each
\* entry is followed by one clearing.
C5_SnapshotStable ==
    [][/\ camera.previous_state # None
          => \/ camera'.previous_state = camera.previous_state
             \/ ExitStep /\ camera'.previous_state = None
       /\ (camera.previous_state = None /\ camera'.previous_state # None) => EntryStep]_vars

C5_Witness ==
    /\ JustReleased
    /\ ~entry.quiet
    /\ camera.previous_state = None
    /\ Pose(camera) = entry.pose

\* C6: the camera starts in FreeFly without a snapshot; the flag goes up only in a
\* handle_input that sees B down in FreeFly and goes down only in a handle_input that
\* sees B up in the overhead view.
C6_ModeMachine ==
    /\ ~camera.bird_eye_active /\ camera.previous_state = None
    /\ [][/\ (~camera.bird_eye_active /\ camera'.bird_eye_active) => EntryStep
          /\ (camera.bird_eye_active /\ ~camera'.bird_eye_active) => ExitStep]_vars

C6_Witness ==
    /\ pc = "input"
    /\ frame = MaxFrames
    /\ ~camera.bird_eye_active
    /\ entry.pose # None
    /\ camera.eye # entry.pose[1]

\* C7: while B stays down over consecutive frames the snapshot stays the pose captured
\* right before the activation; no later frame replaces it by the overhead framing.
C7_HeldActivationKeepsSnapshot ==
    camera.bird_eye_active => camera.previous_state = entry.pose

C7_Witness ==
    /\ pc = "render"
    /\ start.bird_eye_active
    /\ camera.bird_eye_active
    /\ "B" \in keys
    /\ camera.previous_state # Pose(start)
    /\ camera.previous_state # None

\* C8: the deactivation command, when no snapshot exists, changes none of eye, center,
\* up, yaw, pitch, roll, the snapshot and the flag.
C8_DeactivateWithoutSnapshot ==
    [][(calls' = calls + 1 /\ last' = "deactivate" /\ camera.previous_state = None)
         => /\ camera'.eye = camera.eye
            /\ camera'.center = camera.center
            /\ camera'.up = camera.up
            /\ camera'.yaw = camera.yaw
            /\ camera'.pitch = camera.pitch
            /\ camera'.roll = camera.roll
            /\ camera'.previous_state = camera.previous_state
            /\ camera'.bird_eye_active = camera.bird_eye_active]_vars

C8_Witness ==
    /\ last = "deactivate"
    /\ camera.bird_eye_active
    /\ camera.previous_state = None

\* C9: after any sequence of Camera operations the stored pitch is within
\* [-PI/2 + 0.1, PI/2 - 0.1].
C9_PitchWithinClamp ==
    -PitchLimit <= camera.pitch /\ camera.pitch <= PitchLimit

C9_Witness ==
    /\ last = "deactivate"
    /\ ~camera.bird_eye_active
    /\ camera.pitch = -PitchLimit

\* the rounding a distance r may suffer in one orbit: two thousandths of r, and two units
RadiusTolerance(r) == 2 + r \div 500

\* the elevation of the eye over the center's horizontal plane, as orbit measures it
Elevation(c) ==
    LET rv == VSub(c.eye, c.center)
    IN Atan2(-rv[2], Magnitude(<<rv[1], 0, rv[3]>>))

\* C10: an orbit call leaves the distance from eye to center as it was, within
\* rounding, also when it clamps the pitch.
C10_OrbitKeepsRadius ==
    [][(calls' = calls + 1 /\ last' = "orbit" /\ ~HasNaN(camera.eye) /\ ~HasNaN(camera.center))
         => LET before == Magnitude(VSub(camera.eye, camera.center))
                after  == Magnitude(VSub(camera'.eye, camera'.center))
            IN ~IsNaN(after) /\ Abs(after - before) <= RadiusTolerance(before)]_vars

C10_Witness ==
    /\ last = "orbit"
    /\ ~HasNaN(camera.eye)
    /\ Magnitude(VSub(camera.eye, camera.center)) > LU
    /\ Abs(Elevation(camera) - PitchLimit) <= 20
    /\ camera.yaw # 0

\* the rounding an eye coordinate may suffer in a zoom by d and the zoom back
ZoomTolerance(d) == 2 + Abs(d) \div 500

\* u and v agree within t in every coordinate
Near(u, v, t) ==
    /\ ~HasNaN(u) /\ ~HasNaN(v)
    /\ \A i \in 1..3 : Abs(u[i] - v[i]) <= t

\* the distance from the eye of c to its center
Radius(c) == Magnitude(VSub(c.center, c.eye))

\* a zoom call by less than the distance to the center, on a camera without NaN
ZoomInside ==
    /\ calls' = calls + 1 /\ last' = "zoom"
    /\ ~HasNaN(camera.eye) /\ ~HasNaN(camera.center)
    /\ 0 < zoomed' /\ zoomed' < Radius(camera) - ZoomTolerance(zoomed')

\* a zoom call that takes back the zoom call right before it, which was a ZoomInside
ZoomBack ==
    /\ calls' = calls + 1 /\ last' = "zoom" /\ last = "zoom"
    /\ zoomed' = -zoomed
    /\ ~HasNaN(prezoom.eye) /\ ~HasNaN(prezoom.center)
    /\ 0 < zoomed /\ zoomed < Radius(prezoom) - ZoomTolerance(zoomed)

\* C11: zoom(d) with 0 < d < |center - eye| leaves the center alone and moves the eye
\* by d towards it (the eye is d away from where it was and d nearer to the center);
\* zoom(-d) right after it brings the eye back to where it was; from eye (0,0,10) and
\* center (0,0,0), zoom(5) gives eye (0,0,5) and zoom(-5) gives (0,0,10) again.
C11_ZoomRoundTrip ==
    [][/\ ZoomInside
          => /\ camera'.center = camera.center
             /\ Abs(Magnitude(VSub(camera'.eye, camera.eye)) - zoomed') <= ZoomTolerance(zoomed')
             /\ Abs(Radius(camera') - (Radius(camera) - zoomed')) <= ZoomTolerance(zoomed')
       /\ ZoomBack
          => /\ camera'.center = prezoom.center
             /\ Near(camera'.eye, prezoom.eye, ZoomTolerance(zoomed))
       /\ (ZoomInside /\ zoomed' = 5 * LU
              /\ camera.eye = Vec3(0, 0, 10 * LU) /\ camera.center = Vec3(0, 0, 0))
          => camera'.eye = Vec3(0, 0, 5 * LU)
       /\ (ZoomBack /\ zoomed = 5 * LU
              /\ prezoom.eye = Vec3(0, 0, 10 * LU) /\ prezoom.center = Vec3(0, 0, 0))
          => camera'.eye = Vec3(0, 0, 10 * LU)]_vars

C11_Witness ==
    /\ last = "zoom"
    /\ zoomed = -5 * LU
    /\ calls = 3
    /\ prezoom.eye # Vec3(0, 0, 5 * LU)
    /\ prezoom.eye[1] # 0
    /\ ~HasNaN(camera.eye)
    /\ Radius(camera) > 5 * LU

\* C12: move_center(v) adds v to the eye and to the center, so that eye - center stays
\* what it was, and leaves up, yaw, pitch, roll, the flag and the snapshot alone.
C12_MoveCenterTranslates ==
    [][(calls' = calls + 1 /\ last' = "move_center")
         => /\ \E v \in Movements :
                 /\ camera'.eye = VAdd(camera.eye, v)
                 /\ camera'.center = VAdd(camera.center, v)
            /\ (~HasNaN(camera.eye) /\ ~HasNaN(camera.center))
                 => /\ ~HasNaN(camera'.eye) /\ ~HasNaN(camera'.center)
                    /\ VSub(camera'.eye, camera'.center) = VSub(camera.eye, camera.center)
            /\ camera'.up = camera.up
            /\ camera'.yaw = camera.yaw
            /\ camera'.pitch = camera.pitch
            /\ camera'.roll = camera.roll
            /\ camera'.bird_eye_active = camera.bird_eye_active
            /\ camera'.previous_state = camera.previous_state]_vars

C12_Witness ==
    /\ last = "move_center"
    /\ camera.bird_eye_active
    /\ camera.previous_state # None
    /\ ~HasNaN(camera.eye)
    /\ camera.center # Vec3(0, 0, 0)

\* the pixel a point call is for
PixelOf(p) == p.y * Width + p.x

\* the fragments and particles handed to point at pixel i since the frame's clear
PointsAt(i) == {p \in points : PixelOf(p) = i /\ ~IsNaN(p.depth)}

OutOfBounds(s) == s[1] < 0 \/ s[2] < 0 \/ s[1] >= Width * SU \/ s[2] >= Height * SU

\* C14: no point call is made for a trail particle or a fragment whose screen position
\* lies outside the framebuffer.
C14_NoWriteOutOfBounds ==
    /\ (trail.clip[4] > 0 /\ ~HasNaN(trail.screen) /\ OutOfBounds(trail.screen))
         => trail.points = {}
    /\ tested.shaded => ~OutOfBounds(tested.fragment.position)

\* C15: primitive assembly makes floor(n / 3) triangles of the n transformed vertices,
\* triangle k of vertices 3k, 3k + 1 and 3k + 2 (counted from 0); the n mod 3 vertices
\* at the end are in no triangle.
C15_PrimitiveAssembly ==
    stage \in {"raster", "fragment"}
      => /\ Len(triangles) = Len(vertex_array) \div 3
         /\ \A k \in 1..Len(triangles) :
               triangles[k] = <<vertex_shader(vertex_array[3 * k - 2]),
                                vertex_shader(vertex_array[3 * k - 1]),
                                vertex_shader(vertex_array[3 * k])>>

C15_Witness ==
    /\ stage = "raster"
    /\ Len(vertex_array) = 5
    /\ Len(triangles) = 1
    /\ draws = 1

\* C16: a triangle with a vertex whose clip-space w is zero or negative gives no
\* fragment.
C16_NonPositiveWSkipped ==
    stage = "fragment"
      => \A n \in 1..Len(fragments) : \A j \in 1..3 :
            triangles[fragments[n].tri][j].clip[4] > 0

\* the step in which the fragment stage shades a fragment
ShadeStep == stage = "fragment" /\ shaded = NoColor /\ shaded' # NoColor

\* the step in which the fragment stage hands the shaded fragment to point
PointStep == stage = "fragment" /\ shaded # NoColor /\ shaded' = NoColor

\* C19: a fragment is shaded only after it has passed the depth test at its pixel, and
\* a fragment that fails the depth test is never shaded.
C19_DepthTestBeforeShading ==
    [][/\ ShadeStep => (tested.fragment = Head(fragments) /\ tested.passed)
       /\ (PointStep /\ ~tested'.passed) => ~tested'.shaded]_vars

\* C19 as the code has it: every fragment within the bounds is shaded first and handed
\* to point afterwards; the depth test in point decides whether the shaded color and
\* the depth are written, and a fragment that fails it leaves the buffers as they were.
C19_ShadingBeforeDepthTest ==
    [][/\ ShadeStep
          => /\ FragmentInBounds(Head(fragments))
             /\ shaded' = fragment_shader(Head(fragments), planet_type)
             /\ UNCHANGED <<framebuffer, fragments, tested>>
       /\ PointStep
          => /\ tested'.fragment = Head(fragments)
             /\ shaded = fragment_shader(Head(fragments), planet_type)
             /\ LET i == FragmentY(Head(fragments)) * Width + FragmentX(Head(fragments))
                IN IF tested'.passed
                   THEN /\ Head(fragments).depth < framebuffer.zbuffer[i]
                        /\ framebuffer'.buffer[i] = shaded
                        /\ framebuffer'.zbuffer[i] = Head(fragments).depth
                   ELSE /\ framebuffer'.buffer = framebuffer.buffer
                        /\ framebuffer'.zbuffer = framebuffer.zbuffer
       /\ (/\ stage = "fragment" /\ fragments # <<>>
           /\ fragments' = Tail(fragments)
           /\ FragmentInBounds(Head(fragments)))
          => PointStep]_vars

C19_Witness ==
    /\ stage = "fragment"
    /\ tested.shaded
    /\ ~tested.passed
    /\ tested.fragment.depth = 750
    /\ framebuffer.current_color = fragment_shader(tested.fragment, planet_type)
    /\ \A i \in Pixels : framebuffer.buffer[i] # framebuffer.current_color

\* the step in which render starts on an entity
BeginsDraw == stage # "assembly" /\ stage' = "assembly"

\* the step in which render returns
EndsDraw == draws' = draws + 1

\* C20: render starts on an entity only when no draw is under way, and a draw under
\* way keeps its entity until its last fragment has been through the fragment stage:
\* the draws of two entities never interleave.
C20_DrawsDoNotInterleave ==
    [][/\ BeginsDraw
          => stage \in {"trails", "idle"} /\ fragments = <<>> /\ shaded = NoColor
       /\ (stage \in {"assembly", "raster", "fragment"} /\ ~EndsDraw)
          => /\ stage' \in {"assembly", "raster", "fragment"}
             /\ UNCHANGED <<draws, planet_type, vertex_array, transformed_vertices>>
       /\ EndsDraw
          => /\ stage = "fragment" /\ stage' = "idle"
             /\ fragments = <<>> /\ shaded = NoColor]_vars

C20_Witness ==
    /\ stage = "assembly"
    /\ draws = 1
    /\ planet_type = "Asteroid"
    /\ Len(vertex_array) = 6
    /\ \E i \in Pixels : framebuffer.buffer[i].rule = "sun_shader"

\* C17: every frame that starts runs to its presentation; the program does not abort
\* inside a frame.
C17_FrameRunsToCompletion == pc # "panicked"

\* the operations that move the eye about the center, and those that derive the center
\* from the stored yaw and pitch
OrbitStyleOps == {"zoom", "move_center", "orbit"}

FreeFlyOps == {"rotate_pitch", "rotate_yaw", "move_forward", "move_up", "move_and_rotate"}

\* C22: in no frame does handle_input call both an operation that moves the eye about
\* the center (zoom, move_center, orbit) and one that derives the center from yaw and
\* pitch (rotate_pitch, rotate_yaw, move_forward, move_up).
C22_StylesNeverMixed ==
    pc = "render" =>
        ~ /\ NavigationCalls(start, keys) \cap OrbitStyleOps # {}
          /\ NavigationCalls(start, keys) \cap FreeFlyOps # {}

\* C24: after rotate_pitch, rotate_yaw, move_forward, move_up and move_and_rotate the
\* center is the eye plus the unit forward vector of the stored yaw and pitch, whatever
\* the center was before the call.
C24_CenterFollowsForward ==
    [][(calls' = calls + 1 /\ last' \in FreeFlyOps)
         => camera'.center = VAdd(camera'.eye, get_forward(camera'))]_vars

C24_Witness ==
    /\ last = "move_and_rotate"
    /\ camera.bird_eye_active
    /\ ~HasNaN(camera.center)
    /\ camera.center # Vec3(0, 0, 0)
    /\ camera.yaw # 0

\* C25: orbit changes the eye and raises has_changed, and nothing else: center, up,
\* yaw, pitch, roll, the flag and the snapshot stay as they were.
C25_OrbitChangesOnlyEye ==
    [][(calls' = calls + 1 /\ last' = "orbit")
         => camera' = [camera EXCEPT !.eye = camera'.eye, !.has_changed = TRUE]]_vars

C25_Witness ==
    /\ last = "orbit"
    /\ camera.bird_eye_active
    /\ camera.previous_state # None
    /\ camera.yaw # 0
    /\ camera.eye # Vec3(0, 1200 * LU, 800 * LU)
    /\ camera.has_changed

\* C27: a frame that starts in the overhead view and does not have B down is in free
\* flight, flag down and snapshot gone, when its handle_input returns.
C27_ReleaseLeavesOverview ==
    (pc = "render" /\ start.bird_eye_active /\ "B" \notin keys)
        => ~camera.bird_eye_active /\ camera.previous_state = None

C27_Witness ==
    /\ pc = "render"
    /\ start.bird_eye_active
    /\ "B" \notin keys
    /\ ~camera.bird_eye_active
    /\ frame = 2

\* C30: when handle_input returns in free flight the roll is within [-0.1, 0.1], and it
\* is 0 when A and D are both up or both down.
C30_RollBounded ==
    (pc = "render" /\ ~camera.bird_eye_active)
        => /\ -(AU \div 10) <= camera.roll /\ camera.roll <= AU \div 10
           /\ (("A" \in keys) <=> ("D" \in keys)) => camera.roll = 0

C30_Witness ==
    /\ pc = "render"
    /\ ~camera.bird_eye_active
    /\ start.roll = AU \div 10
    /\ keys = {"A", "D"}
    /\ camera.roll = 0

\* the step of a frame a stage belongs to: the clear, the trails, the render calls, the
\* presentation
Phase(st) ==
    CASE st = "clear" -> 0
      [] st = "trails" -> 1
      [] st \in {"assembly", "raster", "fragment", "idle"} -> 2
      [] st = "presented" -> 3

\* C23: the frame is presented only after its clear and after every draw call of the
\* frame has returned, and from the presentation to the next frame's clear no pixel is
\* written.
C23_PresentAfterDraws ==
    [][/\ (stage' = "presented" /\ stage # "presented")
            => stage = "idle" /\ fragments = <<>> /\ shaded = NoColor
       /\ Phase(stage') < Phase(stage) => stage = "presented" /\ stage' = "clear"
       /\ (stage = "presented" \/ stage' = "presented") => framebuffer' = framebuffer]_vars

C23_Witness ==
    /\ stage = "clear"
    /\ \E i \in Pixels : framebuffer.buffer[i] # Background
    /\ points # {}

\* C26: a body that passes the frustum test with an empty position history has a
\* trail-line loop bound, len - 1, that is not below zero.
C26_LoopBoundNotNegative ==
    \A i \in 0..8 :
        (pc = "render" /\ frame >= 1 /\ is_in_frustum(celestial_bodies[frame][i], view)
            /\ previous_positions[i] = <<>>)
        => Len(previous_positions[i]) - 1 >= 0

\* the particles of a sequence are in the order they were added in
InsertionOrder(ps) == \A i, j \in DOMAIN ps : i < j => ps[i].id < ps[j].id

\* C28: a trail never holds more than max_particles particles; add_particle on a full
\* trail removes the oldest particle and nothing else, and appends the new one last, so
\* the particles stay in insertion order.
C28_TrailBounded ==
    [][/\ Len(body_trail'.particles) <= body_trail'.max_particles
       /\ InsertionOrder(body_trail'.particles)
       /\ (trail_op'.n = trail_op.n + 1 /\ trail_op'.op = "add_particle")
            => LET before == body_trail.particles
                   after == body_trail'.particles
               IN /\ after # <<>>
                  /\ after[Len(after)].id = trail_op'.n
                  /\ SubSeq(after, 1, Len(after) - 1)
                        = IF Len(before) >= body_trail.max_particles
                          THEN SubSeq(before, 2, Len(before))
                          ELSE before]_vars

C28_Witness ==
    /\ trail_op.op = "add_particle"
    /\ Len(body_trail.particles) = body_trail.max_particles
    /\ body_trail.particles[1].id = 2
    /\ trail_op.n = body_trail.max_particles + 1

\* C29: update(dt) lowers the lifetime of every particle by dt, removes exactly those
\* whose lifetime is then <= 0 and keeps the others in their order; after it every
\* particle has a lifetime above 0.
C29_UpdateExpires ==
    [][(trail_op'.n = trail_op.n + 1 /\ trail_op'.op = "update")
         => LET before == body_trail.particles
                after == body_trail'.particles
            IN /\ \A j \in DOMAIN after : after[j].lifetime > 0
               /\ \A i \in DOMAIN before :
                    (before[i].lifetime - trail_op'.dt > 0)
                        <=> \E j \in DOMAIN after : after[j].id = before[i].id
               /\ \A j \in DOMAIN after : \E i \in DOMAIN before :
                    /\ after[j].id = before[i].id
                    /\ after[j].lifetime = before[i].lifetime - trail_op'.dt
               /\ InsertionOrder(after)]_vars

C29_Witness ==
    /\ trail_op.op = "update"
    /\ trail_op.n = 4
    /\ Len(body_trail.particles) = 1
    /\ body_trail.particles[1].id = 2
    /\ body_trail.particles[1].lifetime = 199998 * LU

\* C21: when the linear part of the model matrix is singular, vertex_shader uses the
\* identity as normal matrix: the transformed normal is the normal it was given.
C21_SingularFallsBackToIdentity ==
    Determinant(normal_of.model) = 0 => normal_of.transformed_normal = normal_of.normal

C21_Witness ==
    /\ Determinant(normal_of.model) = 0
    /\ normal_of.model # Scale(0)
    /\ MatVec(normal_of.model, normal_of.normal) # normal_of.normal
    /\ normal_of.transformed_normal = normal_of.normal
    /\ normal_of.normal = Vec3(577, 577, 577)

====
